---- MODULE Spec2Model ----
(***************************************************************************)
(* The websocket relay of app/main.py (ws_endpoint and its three pipeline  *)
(* tasks browser_reader, gemini_sender, gemini_receiver) and the appliance *)
(* tools of app/appliance_tools.py it dispatches to.                       *)
(***************************************************************************)
EXTENDS Integers, Sequences, FiniteSets, TLC

VARIABLES
    phase,        \* where ws_endpoint is: Handshaking, Connecting, Active, Closing, Closed, Failed
    task,         \* per pipeline task: none | running | returned | raised | cancelled
    taskExc,      \* per pipeline task: the exception class it raised, or "none"
    tgPending,    \* finished tasks whose TaskGroup done-callback has not run yet
    exc,          \* the exception leaving the try body of ws_endpoint, or "none"
    sessionOpen,  \* the remote live session is open
    wsClosed,     \* ws.close() has been called by the relay
    audio_in_q,   \* the chunks in audio_in_q, oldest first
    nRecv,        \* number of binary frames received from the client so far
    evicted,      \* chunks removed by the drop-oldest branch
    remoteIn,     \* what the relay handed to the remote session, in order
    wsOut,        \* what the relay handed to the client websocket, in order
    rcv,          \* position and locals of gemini_receiver
    tool          \* the execute_tool call gemini_receiver has just made, with its outcome

vars == <<phase, task, taskExc, tgPending, exc, sessionOpen, wsClosed,
          audio_in_q, nRecv, evicted, remoteIn, wsOut, rcv, tool>>

-----------------------------------------------------------------------------
(* Bounds of the model.                                                    *)

\* Spec: binary frames of a client, responses and turns of the remote session,
\* and typed texts, in one connection
MaxChunks == 1
MaxResponses == 1
MaxTurns == 1
MaxControl == 1
\* SpecAudio: binary frames
MaxAudioChunks == 22
\* SpecRemote: responses and turns of the remote session
MaxRemoteResponses == 2
MaxRemoteTurns == 1
\* SpecTools: responses and turns of the remote session
MaxTargetWords == 2
MaxStreamResponses == 3
MaxStopChunks == 2
MaxStops == 1
MaxControlChunks == 2
MaxPings == 2
MaxStreamTurns == 2
MaxToolResponses == 1
MaxToolTurns == 1

\* asyncio.Queue(maxsize=20)
QueueMaxsize == 20

Tasks == {"browser_reader", "gemini_sender", "gemini_receiver"}

-----------------------------------------------------------------------------
(* Helpers                                                                 *)

Last(s) == s[Len(s)]

\* F(v) with v evaluated once, however often F uses it
Let(v, F(_)) == CHOOSE r \in {F(x) : x \in {v}} : TRUE

RECURSIVE SeqToSet(_)
SeqToSet(s) == IF s = <<>> THEN {} ELSE {Head(s)} \cup SeqToSet(Tail(s))

\* a frame handed to the client websocket
Note(type, seq, idx, name, body) ==
    [type |-> type, seq |-> seq, idx |-> idx, name |-> name, body |-> body]

\* an input handed to the remote session
RemoteEvt(kind, chunk, responses) ==
    [kind |-> kind, chunk |-> chunk, responses |-> responses]

NoBody == [ok |-> FALSE, result |-> "none"]

\* what the logs keep of a tool result: the truth of result.get("ok") and
\* result.get("result")
ResultBrief(value) ==
    [ok |-> "ok" \in DOMAIN value /\ value.ok,
     result |-> IF "result" \in DOMAIN value THEN value.result ELSE "none"]

\* _safe_send_text / _safe_send_bytes: the send is attempted and any failure of it
\* is swallowed, so control always continues after the call
_safe_send(out, frame) == Append(out, frame)

-----------------------------------------------------------------------------
(* app/appliance_tools.py.  Text is a sequence of one-character strings.   *)

\* A value whose Python type is not fixed by the code (a tool-call argument, a
\* JSON body) carries its type: [t |-> "none" | "str" | "int" | "array" |
\* "object", v |-> the value]. A str is a sequence of characters.
PyNone == [t |-> "none", v |-> 0]
\* a body json() cannot parse
PyInvalid == [t |-> "invalid", v |-> 0]
PyStr(s) == [t |-> "str", v |-> s]
PyInt(n) == [t |-> "int", v |-> n]
PyArray(xs) == [t |-> "array", v |-> xs]
PyObject(r) == [t |-> "object", v |-> r]

\* dict.get(key) of a record: the field, or None when the key is absent
Get(d, k) == IF k \in DOMAIN d THEN d[k] ELSE PyNone

\* Python truthiness: None, "", 0, [] and {} are falsy
Falsy(x) ==
    \/ x.t = "none"
    \/ x.t = "str" /\ x.v = <<>>
    \/ x.t = "int" /\ x.v = 0
    \/ x.t = "array" /\ x.v = <<>>
    \/ x.t = "object" /\ DOMAIN x.v = {}

\* x or y
Or(x, y) == IF Falsy(x) THEN y ELSE x

Upper == <<"A","B","C","D","E","F","G","H","I","J","K","L","M",
           "N","O","P","Q","R","S","T","U","V","W","X","Y","Z">>
Lower == <<"a","b","c","d","e","f","g","h","i","j","k","l","m",
           "n","o","p","q","r","s","t","u","v","w","x","y","z">>
Digits == <<"0","1","2","3","4","5","6","7","8","9">>

\* str.lower() of one character
LowerChar(c) ==
    IF \E i \in 1..26 : Upper[i] = c
    THEN Lower[CHOOSE i \in 1..26 : Upper[i] = c]
    ELSE c

\* [a-z0-9]
IsAlnum(c) == (\E i \in 1..26 : Lower[i] = c) \/ (\E i \in 1..10 : Digits[i] = c)

StartsWith(s, p) == Len(s) >= Len(p) /\ SubSeq(s, 1, Len(p)) = p

\* str.replace(old, new): every non-overlapping occurrence, left to right
RECURSIVE Replace(_, _, _)
Replace(s, old, new) ==
    IF Len(s) < Len(old) THEN s
    ELSE IF StartsWith(s, old)
         THEN new \o Replace(SubSeq(s, Len(old) + 1, Len(s)), old, new)
         ELSE <<Head(s)>> \o Replace(Tail(s), old, new)

\* re.sub(r"[^a-z0-9]+", " ", s): each run of other characters becomes one space
RECURSIVE SubNonAlnum(_)
SubNonAlnum(s) ==
    IF s = <<>> THEN <<>>
    ELSE IF IsAlnum(Head(s)) THEN <<Head(s)>> \o SubNonAlnum(Tail(s))
    ELSE IF Len(s) >= 2 /\ ~IsAlnum(s[2]) THEN SubNonAlnum(Tail(s))
    ELSE <<" ">> \o SubNonAlnum(Tail(s))

\* re.sub(r"\s+", " ", s): each run of spaces becomes one space
RECURSIVE SubSpaces(_)
SubSpaces(s) ==
    IF s = <<>> THEN <<>>
    ELSE IF Head(s) = " " /\ Len(s) >= 2 /\ s[2] = " " THEN SubSpaces(Tail(s))
    ELSE <<Head(s)>> \o SubSpaces(Tail(s))

\* str.strip() of a text whose only whitespace is the space
RECURSIVE Strip(_)
Strip(s) ==
    IF s = <<>> THEN s
    ELSE IF Head(s) = " " THEN Strip(Tail(s))
    ELSE IF Last(s) = " " THEN Strip(SubSeq(s, 1, Len(s) - 1))
    ELSE s

W_air_conditioner == <<"a","i","r"," ","c","o","n","d","i","t","i","o","n","e","r">>
W_airconditioner == <<"a","i","r","c","o","n","d","i","t","i","o","n","e","r">>
W_ac == <<"a","c">>
W_television == <<"t","e","l","e","v","i","s","i","o","n">>
W_tv == <<"t","v">>
W_lights == <<"l","i","g","h","t","s">>
W_light == <<"l","i","g","h","t">>
W_lamp == <<"l","a","m","p">>
W_bulb == <<"b","u","l","b">>
W_pc == <<"p","c">>
W_computer == <<"c","o","m","p","u","t","e","r">>

_norm(s0) ==
    LET s1 == [i \in 1..Len(s0) |-> LowerChar(s0[i])]
        s2 == Replace(s1, W_air_conditioner, W_ac)
        s3 == Replace(s2, W_airconditioner, W_ac)
        s4 == Replace(s3, W_television, W_tv)
        s5 == Replace(s4, W_lights, W_light)
        s6 == Replace(s5, W_lamp, W_bulb)
        s7 == Replace(s6, W_light, W_bulb)
        s8 == Replace(s7, W_pc, W_computer)
    IN  Strip(SubSpaces(SubNonAlnum(s8)))

\* str(n) of a natural number: its decimal digits
RECURSIVE Str(_)
Str(n) ==
    IF n < 10 THEN <<Digits[n + 1]>> ELSE Str(n \div 10) \o <<Digits[(n % 10) + 1]>>

\* " ".join(parts)
RECURSIVE Join(_)
Join(parts) ==
    IF parts = <<>> THEN <<>>
    ELSE IF Len(parts) = 1 THEN Head(parts)
    ELSE Head(parts) \o <<" ">> \o Join(Tail(parts))

\* the truthy elements of a sequence of parts ("if p"): an empty text is dropped
RECURSIVE Truthy(_)
Truthy(parts) ==
    IF parts = <<>> THEN <<>>
    ELSE IF Head(parts) = <<>> THEN Truthy(Tail(parts))
    ELSE <<Head(parts)>> \o Truthy(Tail(parts))

_candidate_text(d) ==
    LET parts == << d.room, d.name, d.type, d.type \o <<" ">> \o Str(d.id) >>
    IN  _norm(Join(Truthy(parts)))

\* difflib.SequenceMatcher: length of the common run of a and b that starts at
\* a[i], b[j] and stays inside a[..ahi], b[..bhi]
RECURSIVE CommonRun(_, _, _, _, _, _)
CommonRun(a, b, i, j, ahi, bhi) ==
    IF i > ahi \/ j > bhi THEN 0
    ELSE IF a[i] # b[j] THEN 0
    ELSE 1 + CommonRun(a, b, i + 1, j + 1, ahi, bhi)

\* SequenceMatcher.find_longest_match(alo, ahi, blo, bhi) without junk (isjunk is
\* None and autojunk needs 200 elements): the longest common block; of several,
\* the one starting earliest in a, and of those the one starting earliest in b.
\* Indexes are 1-based and both ends inclusive.
find_longest_match(a, b, alo, ahi, blo, bhi) ==
    Let({[i |-> i, j |-> j, size |-> CommonRun(a, b, i, j, ahi, bhi)] :
            i \in alo..ahi, j \in blo..bhi},
        LAMBDA blocks :
            CHOOSE m \in blocks : \A q \in blocks :
                \/ m.size > q.size
                \/ m.size = q.size /\ m.i < q.i
                \/ m.size = q.size /\ m.i = q.i /\ m.j <= q.j)

\* SequenceMatcher.get_matching_blocks: the total size of the matching blocks, found
\* by taking the longest block and recursing on what lies left and right of it
RECURSIVE MatchingSize(_, _, _, _, _, _)
MatchingSize(a, b, alo, ahi, blo, bhi) ==
    IF alo > ahi \/ blo > bhi THEN 0
    ELSE Let(find_longest_match(a, b, alo, ahi, blo, bhi),
             LAMBDA m :
                IF m.size = 0 THEN 0
                ELSE m.size
                     + MatchingSize(a, b, alo, m.i - 1, blo, m.j - 1)
                     + MatchingSize(a, b, m.i + m.size, ahi, m.j + m.size, bhi))

\* A score is the fraction n / d with d > 0 (Python computes it as a float).
Frac(n, d) == [n |-> n, d |-> d]
FracLess(x, y) == x.n * y.d < y.n * x.d
FracLeq(x, y) == x.n * y.d <= y.n * x.d
FracAdd(x, y) == Frac(x.n * y.d + y.n * x.d, x.d * y.d)
FracSub(x, y) == Frac(x.n * y.d - y.n * x.d, x.d * y.d)

\* SequenceMatcher(None, a, b).ratio(): 2.0 * matches / (len(a) + len(b)), and
\* 1.0 when both are empty
_score(a, b) ==
    IF Len(a) + Len(b) = 0 THEN Frac(1, 1)
    ELSE Frac(2 * MatchingSize(a, b, 1, Len(a), 1, Len(b)), Len(a) + Len(b))

\* str.split(): the maximal runs without a space, as a set (set(t.split()))
RECURSIVE Tokens(_, _)
Tokens(s, cur) ==
    IF s = <<>> THEN (IF cur = <<>> THEN {} ELSE {cur})
    ELSE IF Head(s) = " "
         THEN (IF cur = <<>> THEN {} ELSE {cur}) \cup Tokens(Tail(s), <<>>)
         ELSE Tokens(Tail(s), Append(cur, Head(s)))

ContainmentBonus == Frac(15, 100)
NotFoundBelow == Frac(55, 100)
AmbiguousBand == Frac(8, 100)
AmbiguousFloor == Frac(60, 100)
\* scored[:5]
AmbiguousTop == 5

\* the score of one device of the catalog against the normalized target t
ScoreDevice(t, d) ==
    Let(_candidate_text(d),
        LAMBDA cand :
            IF Tokens(t, <<>>) # {} /\ Tokens(t, <<>>) \subseteq Tokens(cand, <<>>)
            THEN FracAdd(_score(t, cand), ContainmentBonus)
            ELSE _score(t, cand))

\* the scores of the devices, in catalog order
RECURSIVE ScoreAll(_, _)
ScoreAll(t, devices) ==
    IF devices = <<>> THEN <<>>
    ELSE <<ScoreDevice(t, Head(devices))>> \o ScoreAll(t, Tail(devices))

\* scored.sort(key=score, reverse=True): descending by score, and stable, so
\* devices of equal score keep their catalog order. The result lists the catalog
\* positions in ranked order.
SortedByScore(scores) ==
    LET n == Len(scores)
        rank(i) == Cardinality({j \in 1..n : FracLess(scores[i], scores[j])})
                   + Cardinality({j \in 1..(i - 1) :
                        ~FracLess(scores[i], scores[j]) /\ ~FracLess(scores[j], scores[i])})
                   + 1
    IN  [r \in 1..n |-> CHOOSE i \in 1..n : rank(i) = r]

\* the elements x of idxs with keep[x], in order
RECURSIVE SelectIdx(_, _)
SelectIdx(idxs, keep) ==
    IF idxs = <<>> THEN <<>>
    ELSE IF keep[Head(idxs)] THEN <<Head(idxs)>> \o SelectIdx(Tail(idxs), keep)
    ELSE SelectIdx(Tail(idxs), keep)

\* a decision that takes every device within the band of the top score as an
\* option, whatever its own score
Decide_NoFloor(devices, scores) ==
    LET order == SortedByScore(scores)
        best_score == scores[order[1]]
        top == SubSeq(order, 1, IF Len(order) < AmbiguousTop
                                THEN Len(order) ELSE AmbiguousTop)
        close == [i \in 1..Len(devices) |->
                    FracLeq(FracSub(best_score, scores[i]), AmbiguousBand)]
        picked == SelectIdx(top, close)
        options == [k \in 1..Len(picked) |-> devices[picked[k]]]
    IN  IF FracLess(best_score, NotFoundBelow) THEN [best |-> <<>>, options |-> <<>>]
        ELSE IF Len(options) >= 2 THEN [best |-> <<>>, options |-> options]
        ELSE [best |-> <<devices[order[1]]>>, options |-> <<>>]

\* the decision of _resolve_device on the scores of a non-empty catalog
Decide(devices, scores) ==
    LET order == SortedByScore(scores)
        best_score == scores[order[1]]
        top == SubSeq(order, 1, IF Len(order) < AmbiguousTop
                                THEN Len(order) ELSE AmbiguousTop)
        close == [i \in 1..Len(devices) |->
                    /\ FracLeq(FracSub(best_score, scores[i]), AmbiguousBand)
                    /\ FracLeq(AmbiguousFloor, scores[i])]
        picked == SelectIdx(top, close)
        options == [k \in 1..Len(picked) |-> devices[picked[k]]]
    IN  IF FracLess(best_score, NotFoundBelow) THEN [best |-> <<>>, options |-> <<>>]
        ELSE IF Len(options) >= 2 THEN [best |-> <<>>, options |-> options]
        ELSE [best |-> <<devices[order[1]]>>, options |-> <<>>]

\* Returns (best_match_or_none, ambiguous_options[]) as [best |-> , options |-> ],
\* where best is <<>> for None and <<d>> for the device d
_resolve_device(devices, target) ==
    Let(_norm(target),
        LAMBDA t :
            IF t = <<>> THEN [best |-> <<>>, options |-> <<>>]
            ELSE IF devices = <<>> THEN [best |-> <<>>, options |-> <<>>]
            ELSE Let(ScoreAll(t, devices), LAMBDA scores : Decide(devices, scores)))

\* The catalog and the targets the model's tool calls use.
T_Bedroom == <<"B","e","d","r","o","o","m">>
T_Living_Room == <<"L","i","v","i","n","g"," ","R","o","o","m">>
T_Bulb == <<"B","u","l","b">>
T_TV == <<"T","V">>
T_xyz == <<"x","y","z">>

Catalog ==
    << [type |-> W_bulb, id |-> 1, name |-> T_Bulb, room |-> T_Bedroom, status |-> FALSE],
       [type |-> W_bulb, id |-> 2, name |-> T_Bulb, room |-> T_Living_Room, status |-> TRUE],
       [type |-> W_tv, id |-> 1, name |-> T_TV, room |-> T_Living_Room, status |-> FALSE] >>

Target_bedroom_bulb == T_Bedroom \o <<" ">> \o W_bulb
Target_living_room_tv == T_Living_Room \o <<" ">> \o T_TV
\* "light" is an alias of "bulb": this target names both bulbs and no room
Target_light_bulb == W_light \o <<" ">> \o W_bulb
Target_living_room_light == T_Living_Room \o <<" ">> \o W_light

\* A catalog longer than the list of known devices a not_found result carries:
\* the fans of one hall, which differ by their id only.
T_Hall == <<"H","a","l","l">>
T_Fan == <<"F","a","n">>
W_fan == <<"f","a","n">>
MaxCatalog == 13
BigCatalog ==
    [i \in 1..MaxCatalog |->
        [type |-> W_fan, id |-> i, name |-> T_Fan, room |-> T_Hall, status |-> TRUE]]
Target_hall_fan == T_Hall \o <<" ">> \o W_fan
Target_fan_13 == W_fan \o <<" ","1","3">>

\* the targets of the model's tool calls
Targets == {Target_bedroom_bulb, Target_living_room_tv, Target_light_bulb,
            Target_living_room_light, Target_hall_fan, Target_fan_13, T_xyz}

\* _resolve_device on the catalogs and targets above, evaluated once
ResolveTable ==
    [target \in Targets |-> _resolve_device(Catalog, target)]
ResolveTableBig ==
    [target \in Targets |-> _resolve_device(BigCatalog, target)]

\* the call _resolve_device(devices, target) of control_device
Resolve(devices, target) ==
    IF devices = Catalog /\ target \in DOMAIN ResolveTable
    THEN ResolveTable[target]
    ELSE IF devices = BigCatalog /\ target \in DOMAIN ResolveTableBig
    THEN ResolveTableBig[target]
    ELSE _resolve_device(devices, target)

\* Two devices of one room, the name of the second being the name of the first
\* with a number
T_Bulb_1 == <<"B","u","l","b"," ","1">>
ExactCatalog ==
    << [type |-> W_bulb, id |-> 1, name |-> T_Bulb, room |-> T_Living_Room, status |-> FALSE],
       [type |-> W_bulb, id |-> 2, name |-> T_Bulb_1, room |-> T_Living_Room, status |-> FALSE] >>

\* A call of _resolve_device step by step: pc is "start" before the call,
\* "scored" once the loop over the devices has filled scored, "done" at the
\* return and "repeated" once the call has been made a second time; result and
\* repeat are the values returned.
NoMatch == [best |-> <<>>, options |-> <<>>]
ResolverCall(pc, scored, result, repeat) ==
    [pc |-> pc, scored |-> scored, result |-> result, repeat |-> repeat]

\* a resolver for which an empty target stands for every device
ResolveScored_EmptyMatchesAll(devices, target) ==
    Let(_norm(target),
        LAMBDA t :
            IF t = <<>>
            THEN ResolverCall("done", <<>>, [best |-> <<>>, options |-> devices], NoMatch)
            ELSE ResolverCall("scored", ScoreAll(t, devices), NoMatch, NoMatch))

\* _resolve_device up to the end of the loop: an empty normalized target returns
\* at once
ResolveScored(devices, target) ==
    Let(_norm(target),
        LAMBDA t :
            IF t = <<>> THEN ResolverCall("done", <<>>, NoMatch, NoMatch)
            ELSE ResolverCall("scored", ScoreAll(t, devices), NoMatch, NoMatch))

\* _resolve_device from the sort to the return
ResolveDecided(devices, scored) ==
    IF scored = <<>> THEN ResolverCall("done", scored, NoMatch, NoMatch)
    ELSE ResolverCall("done", scored, Decide(devices, scored), NoMatch)

\* The outcome of a call: it returns a value or raises; calls are the HTTP
\* requests it made, in order.
Returned(value, calls) == [raised |-> FALSE, exc |-> "none", value |-> value, calls |-> calls]
Raised(e, calls) == [raised |-> TRUE, exc |-> e, value |-> <<>>, calls |-> calls]

\* one HTTP request (its path and its status parameter, "none" when it has none)
\* and what came back: the status code as text, or "transport_error", and the
\* JSON body the code reads (PyInvalid when it reads none)
HttpCall(path, status, resp, body) ==
    [path |-> path, status |-> status, resp |-> resp, body |-> body]

\* the request returned and r.raise_for_status() passes
IsSuccess(resp) == resp = "200"

\* api.read is what GET /api/devices does: [resp |-> status code or
\* "transport_error", json |-> the body, or PyInvalid when it is no JSON]. An object
\* body is a record whose ok field, when present, is a BOOLEAN and whose devices
\* field, when present, is a JSON value.
get_devices(api) ==
    LET call == <<HttpCall(<<"api", "devices">>, "none", api.read.resp, api.read.json)>>
        data == api.read.json
    IN  IF ~IsSuccess(api.read.resp) \/ data.t = "invalid"
        THEN Returned([ok |-> FALSE, error |-> "get_devices failed"], call)
        ELSE IF data.t = "object" /\ "devices" \in DOMAIN data.v
        THEN Returned(data.v, call)
        ELSE Returned([ok |-> TRUE, ts |-> "now", devices |-> data], call)

W_on == <<"o","n">>
W_off == <<"o","f","f">>
W_toggle == <<"t","o","g","g","l","e">>

\* str.lower() of a text
LowerText(s) == [i \in 1..Len(s) |-> LowerChar(s[i])]

\* devices[:12]
KnownDevicesMax == 12

\* a write that goes to the legacy path after any failure of the primary one
ControlWrite_RetryAnyFailure(api, action, calls, device) ==
    LET after == IF action = W_toggle THEN ~device.status
                 ELSE IF action = W_on THEN TRUE ELSE FALSE
        params == IF after THEN "true" ELSE "false"
        first == HttpCall(<<"application", device.type, device.id>>, params,
                          api.primary, PyInvalid)
        second == HttpCall(<<device.type, device.id>>, params, api.fallback, PyInvalid)
    IN
    IF IsSuccess(api.primary)
    THEN Returned([ok |-> TRUE, result |-> "success",
                   device |-> [type |-> device.type, id |-> device.id,
                               name |-> device.name, room |-> device.room,
                               status_before |-> device.status, status_after |-> after]],
                  calls \o <<first>>)
    ELSE IF IsSuccess(api.fallback)
    THEN Returned([ok |-> TRUE, result |-> "success",
                   device |-> [type |-> device.type, id |-> device.id,
                               name |-> device.name, room |-> device.room,
                               status_before |-> device.status, status_after |-> after]],
                  calls \o <<first, second>>)
    ELSE Returned([ok |-> FALSE, result |-> "error", message |-> "Failed to control",
                   device |-> [type |-> device.type, id |-> device.id,
                               name |-> device.name, room |-> device.room]],
                  calls \o <<first, second>>)

\* control_device once the device is resolved: the desired status and the write,
\* first to /application/{type}/{id} and, on a 404 there, to /{type}/{id}
ControlWrite(api, action, calls, device) ==
    LET dev_type == device.type
        dev_id == device.id
        before == device.status
        after == IF action = W_toggle THEN ~before
                 ELSE IF action = W_on THEN TRUE ELSE FALSE
        primary == <<"application", dev_type, dev_id>>
        fallback == <<dev_type, dev_id>>
        params == IF after THEN "true" ELSE "false"
        first == HttpCall(primary, params, api.primary, PyInvalid)
        second == HttpCall(fallback, params, api.fallback, PyInvalid)
    IN
    IF IsSuccess(IF api.primary = "404" THEN api.fallback ELSE api.primary)
    THEN Returned([ok |-> TRUE, result |-> "success",
                   device |-> [type |-> dev_type, id |-> dev_id,
                               name |-> device.name, room |-> device.room,
                               status_before |-> before, status_after |-> after]],
                  IF api.primary = "404" THEN calls \o <<first, second>>
                  ELSE calls \o <<first>>)
    ELSE Returned([ok |-> FALSE, result |-> "error", message |-> "Failed to control",
                   device |-> [type |-> dev_type, id |-> dev_id,
                               name |-> device.name, room |-> device.room]],
                  IF api.primary = "404" THEN calls \o <<first, second>>
                  ELSE calls \o <<first>>)

\* a control_device that, given several close matches, writes to the first of them
ControlResolved_WriteFirstOption(api, action, calls, devices, res) ==
    IF res.options # <<>>
    THEN ControlWrite(api, action, calls, res.options[1])
    ELSE IF res.best = <<>>
    THEN Returned([ok |-> FALSE, result |-> "not_found",
                   known_devices |-> SubSeq(devices, 1,
                        IF Len(devices) < KnownDevicesMax THEN Len(devices)
                        ELSE KnownDevicesMax)], calls)
    ELSE ControlWrite(api, action, calls, res.best[1])

\* control_device on the outcome res of _resolve_device
ControlResolved(api, action, calls, devices, res) ==
    IF res.options # <<>>
    THEN Returned([ok |-> FALSE, result |-> "needs_clarification",
                   options |-> [k \in 1..Len(res.options) |->
                        [type |-> res.options[k].type, id |-> res.options[k].id,
                         name |-> res.options[k].name, room |-> res.options[k].room,
                         status |-> res.options[k].status]]], calls)
    ELSE IF res.best = <<>>
    THEN Returned([ok |-> FALSE, result |-> "not_found",
                   known_devices |-> SubSeq(devices, 1,
                        IF Len(devices) < KnownDevicesMax THEN Len(devices)
                        ELSE KnownDevicesMax)], calls)
    ELSE ControlWrite(api, action, calls, res.best[1])

\* control_device on the snapshot that get_devices returned
ControlSnapshot(api, action, target, got) ==
    IF ~("ok" \in DOMAIN got.value /\ got.value.ok)
    THEN Returned([ok |-> FALSE, result |-> "error",
                   message |-> IF "error" \in DOMAIN got.value
                               THEN got.value.error ELSE "Unknown error"], got.calls)
    ELSE IF target.t # "str"
    THEN Raised("AttributeError", got.calls)  \* .lower() of a non-string
    ELSE IF Or(Get(got.value, "devices"), PyArray(<<>>)).t # "array"
    THEN Raised("AttributeError", got.calls)  \* the devices are no list of objects
    ELSE ControlResolved(api, action, got.calls,
                         Or(Get(got.value, "devices"), PyArray(<<>>)).v,
                         Resolve(Or(Get(got.value, "devices"), PyArray(<<>>)).v, target.v))

\* an action that is passed on as it came
ClampAction_Unclamped(a) == a

\* action not in {"on", "off", "toggle"} becomes "toggle"
ClampAction(a) == IF a \in {W_on, W_off, W_toggle} THEN a ELSE W_toggle

\* action and target are the values execute_tool passes
control_device(api, action, target) ==
    IF Or(action, PyStr(W_toggle)).t # "str"
    THEN Raised("AttributeError", <<>>)  \* .strip() of a non-string
    ELSE ControlSnapshot(api, ClampAction(LowerText(Strip(Or(action, PyStr(W_toggle)).v))),
                         target, get_devices(api))

\* a dispatch without the except clause: what the tool raises, the dispatch raises
Caught_Reraise(r) == r

\* the except clause of execute_tool
Caught(r) ==
    IF r.raised
    THEN Returned([ok |-> FALSE, result |-> "error", message |-> r.exc], r.calls)
    ELSE r

\* execute_tool of ws_endpoint: args is the record fc.args or {}; every exception
\* of the dispatch is caught and becomes an error result
execute_tool(name, args, api) ==
    IF name = "get_devices" THEN Caught(get_devices(api))
    ELSE IF name = "control_device"
    THEN Caught(control_device(api, Or(Get(args, "action"), PyStr(W_toggle)),
                               Or(Get(args, "target"), PyStr(<<>>))))
    ELSE Returned([ok |-> FALSE, result |-> "error",
                   message |-> <<"Unknown tool", name>>], <<>>)

-----------------------------------------------------------------------------
(* RELAY: the inputs the environment can supply.                           *)

\* the tool calls the remote session asks for: fc.name and fc.args or {}
FC_get_devices == [name |-> "get_devices", args |-> <<>>]
FC_on == [name |-> "control_device",
          args |-> [action |-> PyStr(W_on), target |-> PyStr(Target_bedroom_bulb)]]
FC_default_action == [name |-> "control_device",
                      args |-> [target |-> PyStr(Target_living_room_tv)]]
FC_no_such_device == [name |-> "control_device",
                      args |-> [action |-> PyStr(W_off), target |-> PyStr(T_xyz)]]
FC_bad_action == [name |-> "control_device",
                  args |-> [action |-> PyInt(5), target |-> PyStr(Target_bedroom_bulb)]]
FC_unknown == [name |-> "set_scene", args |-> <<>>]
FC_ambiguous == [name |-> "control_device",
                 args |-> [action |-> PyStr(W_on), target |-> PyStr(Target_light_bulb)]]
FC_toggle_fan == [name |-> "control_device",
                  args |-> [action |-> PyStr(W_toggle), target |-> PyStr(Target_fan_13)]]
\* an action in capitals and with spaces around it
FC_off == [name |-> "control_device",
           args |-> [action |-> PyStr(<<" ","O","F","F"," ">>),
                     target |-> PyStr(Target_living_room_light)]]
\* an action outside {on, off, toggle}
FC_dim == [name |-> "control_device",
           args |-> [action |-> PyStr(<<"d","i","m">>),
                     target |-> PyStr(Target_bedroom_bulb)]]

\* what GET /api/devices does
ReadOutcomes ==
    << [resp |-> "200", json |-> PyArray(Catalog)],
      [resp |-> "200", json |-> PyObject([ok |-> TRUE, devices |-> PyArray(Catalog)])],
      [resp |-> "200", json |-> PyObject([devices |-> PyArray(Catalog)])],
      [resp |-> "200", json |-> PyObject([detail |-> PyStr(T_xyz)])],
      [resp |-> "200", json |-> PyNone],
      [resp |-> "200", json |-> PyInvalid],
      [resp |-> "500", json |-> PyInvalid],
      [resp |-> "transport_error", json |-> PyInvalid],
      [resp |-> "200", json |-> PyArray(BigCatalog)] >>

\* what a device write does
WriteOutcomes == {"200", "404", "500", "transport_error"}

\* how the appliance API behaves during one tool call
ApiBehaviour(read, primary, fallback) ==
    [read |-> read, primary |-> primary, fallback |-> fallback]

\* the frames a client sends once the relay is Active
ClientFrames == {"disconnect", "binary", "not_json", "json_not_object", "stop",
                 "text", "text_empty", "ping", "close", "unknown_type"}

\* the frames of the client in Spec: those that end browser_reader, audio, typed
\* text, and the frames that are skipped
LifecycleFrames == ClientFrames \ {"stop", "ping"}

\* the first frame of a client
InitFrames == {"disconnect", "binary", "not_json", "json_not_object", "json_object"}

\* A remote response: its tool calls, and the fields of its server_content.
\* parts lists, for each part of model_turn, whether it has inline audio bytes.
Response(calls, interrupted, input_tr, output_tr, data, parts) ==
    [calls |-> calls, interrupted |-> interrupted, input_transcription |-> input_tr,
     output_transcription |-> output_tr, data |-> data, parts |-> parts]

Silent == Response(<<>>, FALSE, FALSE, FALSE, FALSE, <<>>)

\* the responses of the remote session in SpecRemote
Responses ==
    << [Silent EXCEPT !.calls = <<FC_on>>],
      [Silent EXCEPT !.calls = <<FC_bad_action, FC_get_devices>>],
      [Silent EXCEPT !.calls = <<FC_default_action, FC_no_such_device>>],
      [Silent EXCEPT !.calls = <<FC_unknown>>, !.data = TRUE],
      [Silent EXCEPT !.interrupted = TRUE, !.data = TRUE],
      [Silent EXCEPT !.input_transcription = TRUE, !.output_transcription = TRUE,
                     !.parts = <<FALSE, TRUE>>],
      [Silent EXCEPT !.output_transcription = TRUE, !.data = TRUE],
      [Silent EXCEPT !.parts = <<TRUE, TRUE>>] >>

\* the responses of the remote session in SpecTools: the batches of tool calls
ToolResponses ==
    SubSeq(Responses, 1, 4)
    \o << [Silent EXCEPT !.calls = <<FC_ambiguous>>],
          [Silent EXCEPT !.calls = <<FC_off>>],
          [Silent EXCEPT !.calls = <<FC_dim>>],
          [Silent EXCEPT !.calls = <<FC_toggle_fan>>] >>

\* the behaviour of the appliance API in SpecRemote: it works, or it is down
RemoteReads == <<[resp |-> "200", json |-> PyArray(Catalog)],
                [resp |-> "transport_error", json |-> PyInvalid]>>
RemoteWrites == {"200", "500"}

\* the responses of the remote session in Spec
LifecycleResponses ==
    << [Silent EXCEPT !.calls = <<FC_unknown>>],
       [Silent EXCEPT !.output_transcription = TRUE, !.data = TRUE] >>

\* the behaviour of the appliance API in Spec
LifecycleReads == <<[resp |-> "200", json |-> PyArray(Catalog)]>>
LifecycleWrites == {"200"}

-----------------------------------------------------------------------------
(* RELAY: ws_endpoint and its three pipeline tasks.                        *)

NoTool == [name |-> "none", args |-> <<>>, out |-> Returned(<<>>, <<>>)]

RcvIdle == [pc |-> "none", nresp |-> 0, turn |-> 0, resp |-> Silent, calls |-> <<>>,
            i |-> 0, function_responses |-> <<>>]

Init ==
    /\ phase = "Handshaking"
    /\ task = [t \in Tasks |-> "none"]
    /\ taskExc = [t \in Tasks |-> "none"]
    /\ tgPending = {}
    /\ exc = "none"
    /\ sessionOpen = FALSE
    /\ wsClosed = FALSE
    /\ audio_in_q = <<>>
    /\ nRecv = 0
    /\ evicted = {}
    /\ remoteIn = <<>>
    /\ wsOut = <<>>
    /\ rcv = RcvIdle
    /\ tool = NoTool

ErrorNote == Note("error", 0, 0, "none", NoBody)

\* ws_endpoint up to the key check: the first frame must be the init JSON.
\* receive_text raises on a disconnect or a binary frame and json.loads on text
\* that is no JSON; init.get raises AttributeError, outside the try, on JSON that
\* is no object.
Handshake(frame, haveKey) ==
    /\ phase = "Handshaking"
    /\ IF frame \in {"disconnect", "binary", "not_json"}
       THEN /\ wsOut' = _safe_send(wsOut, ErrorNote)
            /\ wsClosed' = TRUE
            /\ phase' = "Closed"
            /\ exc' = exc
       ELSE IF frame = "json_not_object"
       THEN /\ exc' = "AttributeError"
            /\ phase' = "Failed"
            /\ UNCHANGED <<wsOut, wsClosed>>
       ELSE IF ~haveKey
       THEN /\ wsOut' = _safe_send(wsOut, ErrorNote)
            /\ wsClosed' = TRUE
            /\ phase' = "Closed"
            /\ exc' = exc
       ELSE /\ phase' = "Connecting"
            /\ UNCHANGED <<wsOut, wsClosed, exc>>
    /\ UNCHANGED <<task, taskExc, tgPending, sessionOpen, audio_in_q, nRecv, evicted,
                   remoteIn, rcv, tool>>

\* client.aio.live.connect and the three tg.create_task calls
Connect(ok) ==
    /\ phase = "Connecting"
    /\ IF ok
       THEN /\ sessionOpen' = TRUE
            /\ task' = [t \in Tasks |-> "running"]
            /\ rcv' = [RcvIdle EXCEPT !.pc = "start"]
            /\ phase' = "Active"
            /\ exc' = exc
       ELSE /\ exc' = "ConnectError"
            /\ phase' = "Closing"
            /\ UNCHANGED <<sessionOpen, task, rcv>>
    /\ UNCHANGED <<taskExc, tgPending, wsClosed, audio_in_q, nRecv, evicted, remoteIn,
                   wsOut, tool>>

\* a pipeline task ends: it returns, or raises the exception e
Finish(t, status, e) ==
    /\ task' = [task EXCEPT ![t] = status]
    /\ taskExc' = [taskExc EXCEPT ![t] = e]
    /\ tgPending' = tgPending \cup {t}

\* a task group whose done-callback never cancels: a task that raised leaves its
\* siblings running, as a task that returned does
TaskGroupOnDone_NoCancel(t) ==
    /\ phase = "Active"
    /\ t \in tgPending
    /\ tgPending' = tgPending \ {t}
    /\ UNCHANGED <<task, rcv, tool>>
    /\ UNCHANGED <<phase, taskExc, exc, sessionOpen, wsClosed, audio_in_q, nRecv,
                   evicted, remoteIn, wsOut>>

\* asyncio.TaskGroup: the done-callback of a finished task. A task that returned
\* leaves its siblings alone; a task that raised makes the group cancel every
\* task still running. Cancellation is CancelledError, a BaseException, which no
\* "except Exception" of the pipelines catches.
TaskGroupOnDone(t) ==
    /\ phase = "Active"
    /\ t \in tgPending
    /\ tgPending' = tgPending \ {t}
    /\ IF task[t] = "raised"
       THEN /\ task' = [u \in Tasks |-> IF task[u] = "running" THEN "cancelled" ELSE task[u]]
            /\ rcv' = IF task["gemini_receiver"] = "running"
                      THEN [RcvIdle EXCEPT !.pc = "done", !.nresp = rcv.nresp,
                                           !.turn = rcv.turn]
                      ELSE rcv
            /\ tool' = IF task["gemini_receiver"] = "running" THEN NoTool ELSE tool
       ELSE UNCHANGED <<task, rcv, tool>>
    /\ UNCHANGED <<phase, taskExc, exc, sessionOpen, wsClosed, audio_in_q, nRecv,
                   evicted, remoteIn, wsOut>>

\* what TaskGroup.__aexit__ raises once every task is done: the exceptions of
\* the tasks wrapped in one ExceptionGroup, or nothing when no task raised
TaskGroupError(errors) == IF errors = {} THEN "none" ELSE "ExceptionGroup"

\* the end of both "async with" blocks: the task group has no task left, and
\* leaving the connect block closes the remote session
TaskGroupExit ==
    /\ phase = "Active"
    /\ tgPending = {}
    /\ \A t \in Tasks : task[t] # "running"
    /\ exc' = TaskGroupError({taskExc[t] : t \in {u \in Tasks : task[u] = "raised"}})
    /\ sessionOpen' = FALSE
    /\ phase' = "Closing"
    /\ UNCHANGED <<task, taskExc, tgPending, wsClosed, audio_in_q, nRecv, evicted,
                   remoteIn, wsOut, rcv, tool>>

\* which handler of ws_endpoint takes the exception e: "except
\* WebSocketDisconnect" matches that class only, "except Exception" the rest
Handler(e) ==
    IF e = "none" THEN "none"
    ELSE IF e = "WebSocketDisconnect" THEN "pass"
    ELSE "send_error"

\* the except clauses and the finally block of ws_endpoint
Teardown ==
    /\ phase = "Closing"
    /\ wsOut' = IF Handler(exc) = "send_error" THEN _safe_send(wsOut, ErrorNote) ELSE wsOut
    /\ wsClosed' = TRUE
    /\ phase' = "Closed"
    /\ UNCHANGED <<task, taskExc, tgPending, exc, sessionOpen, audio_in_q, nRecv,
                   evicted, remoteIn, rcv, tool>>

\* asyncio.Queue.full() of a queue with maxsize > 0
Full(q) == Len(q) >= QueueMaxsize

\* an enqueue that keeps a full queue as it is: put_nowait alone, whose QueueFull
\* is swallowed, so the new chunk is the one dropped
DropOldestPut_DropNewest(q, chunk) == IF Full(q) THEN q ELSE Append(q, chunk)

\* browser_reader on a binary frame: drop the oldest chunk if the queue is full,
\* then put_nowait
DropOldestPut(q, chunk) ==
    LET q1 == IF Full(q) THEN Tail(q) ELSE q
    IN  IF Full(q1) THEN q1 ELSE Append(q1, chunk)

CountKind(log, kind) == Cardinality({i \in 1..Len(log) : log[i].kind = kind})
CountType(log, type) == Cardinality({i \in 1..Len(log) : log[i].type = type})

\* one iteration of the loop of browser_reader, on the frame the client sent.
\* sessionOk: whether a send to the remote session it makes succeeds. The client
\* sends at most maxChunks binary frames and maxControl stop, text and ping
\* messages each.
BrowserReader(frame, sessionOk, maxChunks, maxControl) ==
    /\ phase = "Active"
    /\ task["browser_reader"] = "running"
    /\ CASE frame = "disconnect" ->
              /\ Finish("browser_reader", "raised", "WebSocketDisconnect")
              /\ UNCHANGED <<audio_in_q, nRecv, evicted, remoteIn, wsOut, wsClosed>>
         [] frame = "binary" ->
              /\ nRecv < maxChunks
              /\ nRecv' = nRecv + 1
              /\ audio_in_q' = DropOldestPut(audio_in_q, nRecv + 1)
              /\ evicted' = evicted \cup
                    (SeqToSet(audio_in_q) \ SeqToSet(DropOldestPut(audio_in_q, nRecv + 1)))
              /\ UNCHANGED <<task, taskExc, tgPending, remoteIn, wsOut, wsClosed>>
         [] frame \in {"not_json", "text_empty", "unknown_type"} ->
              UNCHANGED <<task, taskExc, tgPending, audio_in_q, nRecv, evicted, remoteIn,
                          wsOut, wsClosed>>
         [] frame = "json_not_object" ->
              /\ Finish("browser_reader", "raised", "AttributeError")
              /\ UNCHANGED <<audio_in_q, nRecv, evicted, remoteIn, wsOut, wsClosed>>
         [] frame = "stop" ->
              /\ CountKind(remoteIn, "audio_stream_end") < maxControl
              /\ remoteIn' = IF sessionOk
                             THEN Append(remoteIn, RemoteEvt("audio_stream_end", 0, <<>>))
                             ELSE remoteIn
              /\ UNCHANGED <<task, taskExc, tgPending, audio_in_q, nRecv, evicted, wsOut,
                             wsClosed>>
         [] frame = "text" ->
              /\ CountKind(remoteIn, "text") < maxControl
              /\ IF sessionOk
                 THEN /\ remoteIn' = Append(remoteIn, RemoteEvt("text", 0, <<>>))
                      /\ UNCHANGED <<task, taskExc, tgPending>>
                 ELSE /\ Finish("browser_reader", "raised", "SessionError")
                      /\ UNCHANGED remoteIn
              /\ UNCHANGED <<audio_in_q, nRecv, evicted, wsOut, wsClosed>>
         [] frame = "ping" ->
              /\ CountType(wsOut, "pong") < maxControl
              /\ wsOut' = _safe_send(wsOut, Note("pong", 0, 0, "none", NoBody))
              /\ UNCHANGED <<task, taskExc, tgPending, audio_in_q, nRecv, evicted, remoteIn,
                             wsClosed>>
         [] frame = "close" ->
              /\ wsClosed' = TRUE
              /\ Finish("browser_reader", "returned", "none")
              /\ UNCHANGED <<audio_in_q, nRecv, evicted, remoteIn, wsOut>>
    /\ UNCHANGED <<phase, exc, sessionOpen, rcv, tool>>

\* a sender that takes the newest chunk of the queue instead of the oldest
GeminiSender_Newest(sessionOk) ==
    /\ phase = "Active"
    /\ task["gemini_sender"] = "running"
    /\ audio_in_q # <<>>
    /\ audio_in_q' = SubSeq(audio_in_q, 1, Len(audio_in_q) - 1)
    /\ IF sessionOk
       THEN /\ remoteIn' = Append(remoteIn, RemoteEvt("audio", Last(audio_in_q), <<>>))
            /\ UNCHANGED <<task, taskExc, tgPending>>
       ELSE /\ Finish("gemini_sender", "raised", "SessionError")
            /\ UNCHANGED remoteIn
    /\ UNCHANGED <<phase, exc, sessionOpen, wsClosed, nRecv, evicted, wsOut, rcv, tool>>

\* one iteration of the loop of gemini_sender: take the oldest chunk (the task
\* waits while the queue is empty) and send it to the remote session
GeminiSender(sessionOk) ==
    /\ phase = "Active"
    /\ task["gemini_sender"] = "running"
    /\ audio_in_q # <<>>
    /\ audio_in_q' = Tail(audio_in_q)
    /\ IF sessionOk
       THEN /\ remoteIn' = Append(remoteIn, RemoteEvt("audio", Head(audio_in_q), <<>>))
            /\ UNCHANGED <<task, taskExc, tgPending>>
       ELSE /\ Finish("gemini_sender", "raised", "SessionError")
            /\ UNCHANGED remoteIn
    /\ UNCHANGED <<phase, exc, sessionOpen, wsClosed, nRecv, evicted, wsOut, rcv, tool>>

\* the frames gemini_receiver sends for a response without tool calls, in order
RECURSIVE PartsAudio(_, _, _)
PartsAudio(parts, seq, k) ==
    IF k > Len(parts) THEN <<>>
    ELSE (IF parts[k] THEN <<Note("audio", seq, k, "part", NoBody)>> ELSE <<>>)
         \o PartsAudio(parts, seq, k + 1)

\* a receiver for which an interruption is the end of the turn
ContentNotes_InterruptEndsTurn(resp, seq) ==
    IF resp.interrupted
    THEN <<Note("interrupt", seq, 0, "none", NoBody),
           Note("turn_complete", seq, 0, "none", NoBody)>>
    ELSE (IF resp.input_transcription
          THEN <<Note("transcript_in", seq, 0, "none", NoBody)>> ELSE <<>>)
         \o (IF resp.output_transcription
             THEN <<Note("transcript_out", seq, 0, "none", NoBody)>> ELSE <<>>)
         \o (IF resp.data
             THEN <<Note("audio", seq, 0, "data", NoBody)>>
             ELSE PartsAudio(resp.parts, seq, 1))

ContentNotes(resp, seq) ==
    IF resp.interrupted THEN <<Note("interrupt", seq, 0, "none", NoBody)>>
    ELSE (IF resp.input_transcription
          THEN <<Note("transcript_in", seq, 0, "none", NoBody)>> ELSE <<>>)
         \o (IF resp.output_transcription
             THEN <<Note("transcript_out", seq, 0, "none", NoBody)>> ELSE <<>>)
         \o (IF resp.data
             THEN <<Note("audio", seq, 0, "data", NoBody)>>
             ELSE PartsAudio(resp.parts, seq, 1))

\* _safe_send of each frame of a sequence, in order
RECURSIVE SendAll(_, _)
SendAll(out, frames) ==
    IF frames = <<>> THEN out ELSE SendAll(_safe_send(out, Head(frames)), Tail(frames))

ReceiverKeeps == <<phase, exc, sessionOpen, wsClosed, audio_in_q, nRecv, evicted>>

\* gemini_receiver before its loop: the "connected" status
ReceiverStart ==
    /\ phase = "Active" /\ task["gemini_receiver"] = "running"
    /\ rcv.pc = "start"
    /\ wsOut' = _safe_send(wsOut, Note("status", 0, 0, "connected", NoBody))
    /\ rcv' = [rcv EXCEPT !.pc = "next"]
    /\ UNCHANGED <<task, taskExc, tgPending, remoteIn, tool>>
    /\ UNCHANGED ReceiverKeeps

\* the next response of the turn arrives: a batch of tool calls starts the
\* dispatch loop, anything else is forwarded at once
ReceiverResponse(resp, maxResponses) ==
    /\ phase = "Active" /\ task["gemini_receiver"] = "running"
    /\ rcv.pc = "next"
    /\ rcv.nresp < maxResponses
    /\ LET seq == rcv.nresp + 1
       IN  IF resp.calls # <<>>
           THEN /\ rcv' = [rcv EXCEPT !.pc = "call", !.nresp = seq, !.resp = resp, !.i = 1,
                              !.calls = [k \in 1..Len(resp.calls) |->
                                  [id |-> <<seq, k>>, name |-> resp.calls[k].name,
                                   args |-> resp.calls[k].args]],
                              !.function_responses = <<>>]
                /\ wsOut' = wsOut
           ELSE /\ rcv' = [rcv EXCEPT !.nresp = seq, !.resp = resp]
                /\ wsOut' = SendAll(wsOut, ContentNotes(resp, seq))
    /\ tool' = NoTool
    /\ UNCHANGED <<task, taskExc, tgPending, remoteIn>>
    /\ UNCHANGED ReceiverKeeps

\* the response stream of the turn is exhausted
ReceiverTurnComplete(maxTurns) ==
    /\ phase = "Active" /\ task["gemini_receiver"] = "running"
    /\ rcv.pc = "next"
    /\ rcv.turn < maxTurns
    /\ wsOut' = _safe_send(wsOut, Note("turn_complete", rcv.nresp, rcv.turn + 1, "none", NoBody))
    /\ rcv' = [rcv EXCEPT !.turn = rcv.turn + 1]
    /\ tool' = NoTool
    /\ UNCHANGED <<task, taskExc, tgPending, remoteIn>>
    /\ UNCHANGED ReceiverKeeps

\* session.receive() fails: the remote session broke
ReceiverSessionError ==
    /\ phase = "Active" /\ task["gemini_receiver"] = "running"
    /\ rcv.pc = "next"
    /\ Finish("gemini_receiver", "raised", "SessionError")
    /\ rcv' = [RcvIdle EXCEPT !.pc = "done", !.nresp = rcv.nresp, !.turn = rcv.turn]
    /\ tool' = NoTool
    /\ UNCHANGED <<remoteIn, wsOut>>
    /\ UNCHANGED ReceiverKeeps

\* a receiver that dispatches call rcv.i without announcing it to the client
ReceiverToolCall_Unannounced ==
    /\ phase = "Active" /\ task["gemini_receiver"] = "running"
    /\ rcv.pc = "call"
    /\ rcv' = [rcv EXCEPT !.pc = "exec"]
    /\ tool' = NoTool
    /\ UNCHANGED <<task, taskExc, tgPending, remoteIn, wsOut>>
    /\ UNCHANGED ReceiverKeeps

\* the tool_call notification of call rcv.i of the batch
ReceiverToolCall ==
    /\ phase = "Active" /\ task["gemini_receiver"] = "running"
    /\ rcv.pc = "call"
    /\ wsOut' = _safe_send(wsOut, Note("tool_call", rcv.nresp, rcv.i, rcv.calls[rcv.i].name, NoBody))
    /\ rcv' = [rcv EXCEPT !.pc = "exec"]
    /\ tool' = NoTool
    /\ UNCHANGED <<task, taskExc, tgPending, remoteIn>>
    /\ UNCHANGED ReceiverKeeps

\* a receiver that submits after each call of a batch instead of after the loop
ToolReturned_SubmitEach(fc, out) ==
    IF out.raised
    THEN /\ Finish("gemini_receiver", "raised", out.exc)
         /\ rcv' = [RcvIdle EXCEPT !.pc = "done", !.nresp = rcv.nresp, !.turn = rcv.turn]
         /\ tool' = NoTool
         /\ wsOut' = wsOut
    ELSE /\ rcv' = [rcv EXCEPT
                       !.function_responses = Append(@,
                           [id |-> fc.id, name |-> fc.name,
                            response |-> ResultBrief(out.value)]),
                       !.i = rcv.i + 1,
                       !.pc = "submit"]
         /\ wsOut' = _safe_send(wsOut, Note("tool_result", rcv.nresp, rcv.i, fc.name,
                                            ResultBrief(out.value)))
         /\ tool' = [name |-> fc.name, args |-> fc.args, out |-> out]
         /\ UNCHANGED <<task, taskExc, tgPending>>

\* execute_tool has returned out for the call fc: its FunctionResponse joins the
\* batch and the tool_result notification goes out
ToolReturned(fc, out) ==
    IF out.raised
    THEN /\ Finish("gemini_receiver", "raised", out.exc)
         /\ rcv' = [RcvIdle EXCEPT !.pc = "done", !.nresp = rcv.nresp, !.turn = rcv.turn]
         /\ tool' = NoTool
         /\ wsOut' = wsOut
    ELSE /\ rcv' = [rcv EXCEPT
                       !.function_responses = Append(@,
                           [id |-> fc.id, name |-> fc.name,
                            response |-> ResultBrief(out.value)]),
                       !.i = rcv.i + 1,
                       !.pc = IF rcv.i < Len(rcv.calls) THEN "call" ELSE "submit"]
         /\ wsOut' = _safe_send(wsOut, Note("tool_result", rcv.nresp, rcv.i, fc.name,
                                            ResultBrief(out.value)))
         /\ tool' = [name |-> fc.name, args |-> fc.args, out |-> out]
         /\ UNCHANGED <<task, taskExc, tgPending>>

\* the await of execute_tool for call rcv.i ends
ReceiverToolResult(api) ==
    /\ phase = "Active" /\ task["gemini_receiver"] = "running"
    /\ rcv.pc = "exec"
    /\ ToolReturned(rcv.calls[rcv.i],
                    execute_tool(rcv.calls[rcv.i].name, rcv.calls[rcv.i].args, api))
    /\ UNCHANGED remoteIn
    /\ UNCHANGED ReceiverKeeps

\* session.send_tool_response(function_responses) after the loop over the batch
ReceiverSubmit(sessionOk) ==
    /\ phase = "Active" /\ task["gemini_receiver"] = "running"
    /\ rcv.pc = "submit"
    /\ IF sessionOk
       THEN /\ remoteIn' = Append(remoteIn,
                                  RemoteEvt("tool_response", rcv.nresp, rcv.function_responses))
            /\ rcv' = [rcv EXCEPT !.pc = "next", !.calls = <<>>, !.i = 0,
                                  !.function_responses = <<>>]
            /\ UNCHANGED <<task, taskExc, tgPending>>
       ELSE /\ Finish("gemini_receiver", "raised", "SessionError")
            /\ rcv' = [RcvIdle EXCEPT !.pc = "done", !.nresp = rcv.nresp, !.turn = rcv.turn]
            /\ UNCHANGED remoteIn
    /\ tool' = NoTool
    /\ UNCHANGED wsOut
    /\ UNCHANGED ReceiverKeeps

\* the steps of gemini_receiver, with the responses the remote session may
\* produce and the behaviours of the appliance API during a tool call
GeminiReceiver(responses, reads, writes, maxResponses, maxTurns) ==
    \/ ReceiverStart
    \/ \E k \in 1..Len(responses) : ReceiverResponse(responses[k], maxResponses)
    \/ ReceiverTurnComplete(maxTurns)
    \/ ReceiverSessionError
    \/ ReceiverToolCall
    \/ \E r \in 1..Len(reads), primary \in writes, fallback \in writes :
            ReceiverToolResult(ApiBehaviour(reads[r], primary, fallback))
    \/ \E ok \in BOOLEAN : ReceiverSubmit(ok)

TaskGroup ==
    \/ \E t \in Tasks : TaskGroupOnDone(t)
    \/ TaskGroupExit

-----------------------------------------------------------------------------
(* Specifications                                                          *)

\* the whole relay, with few inputs of each kind
Next ==
    \/ \E frame \in InitFrames, haveKey \in BOOLEAN : Handshake(frame, haveKey)
    \/ \E ok \in BOOLEAN : Connect(ok)
    \/ \E frame \in LifecycleFrames, ok \in BOOLEAN :
            BrowserReader(frame, ok, MaxChunks, MaxControl)
    \/ \E ok \in BOOLEAN : GeminiSender(ok)
    \/ GeminiReceiver(LifecycleResponses, LifecycleReads, LifecycleWrites,
                      MaxResponses, MaxTurns)
    \/ TaskGroup
    \/ Teardown

Spec == Init /\ [][Next]_vars

\* the audio path: a client that streams audio while the remote session is silent
NextAudio ==
    \/ \E frame \in InitFrames, haveKey \in BOOLEAN : Handshake(frame, haveKey)
    \/ \E ok \in BOOLEAN : Connect(ok)
    \/ \E frame \in {"binary", "disconnect"}, ok \in BOOLEAN :
            BrowserReader(frame, ok, MaxAudioChunks, 0)
    \/ \E ok \in BOOLEAN : GeminiSender(ok)
    \/ TaskGroup
    \/ Teardown

SpecAudio == Init /\ [][NextAudio]_vars

\* the remote session's side: every kind of response, over several responses,
\* with a client that only disconnects or closes
NextRemote ==
    \/ \E frame \in InitFrames, haveKey \in BOOLEAN : Handshake(frame, haveKey)
    \/ \E ok \in BOOLEAN : Connect(ok)
    \/ \E frame \in {"disconnect", "close"} : BrowserReader(frame, TRUE, 0, 0)
    \/ GeminiReceiver(Responses, RemoteReads, RemoteWrites,
                      MaxRemoteResponses, MaxRemoteTurns)
    \/ TaskGroup
    \/ Teardown

SpecRemote == Init /\ [][NextRemote]_vars

\* the tool calls: every batch of tool calls under every behaviour of the
\* appliance API, with a client that only disconnects or closes
NextTools ==
    \/ \E frame \in InitFrames, haveKey \in BOOLEAN : Handshake(frame, haveKey)
    \/ \E ok \in BOOLEAN : Connect(ok)
    \/ \E frame \in {"disconnect", "close"} : BrowserReader(frame, TRUE, 0, 0)
    \/ GeminiReceiver(ToolResponses, ReadOutcomes, WriteOutcomes,
                      MaxToolResponses, MaxToolTurns)
    \/ TaskGroup
    \/ Teardown

SpecTools == Init /\ [][NextTools]_vars

\* the control channel: a client that sends audio, text frames that are no
\* recognised control message, and pings
ControlFrames == {"binary", "not_json", "json_not_object", "unknown_type",
                  "text_empty", "ping", "disconnect"}

NextControl ==
    \/ \E frame \in InitFrames, haveKey \in BOOLEAN : Handshake(frame, haveKey)
    \/ \E ok \in BOOLEAN : Connect(ok)
    \/ \E frame \in ControlFrames, ok \in BOOLEAN :
            BrowserReader(frame, ok, MaxControlChunks, MaxPings)
    \/ \E ok \in BOOLEAN : GeminiSender(ok)
    \/ TaskGroup
    \/ Teardown

SpecControl == Init /\ [][NextControl]_vars

\* the end of the client's audio: a client that streams audio and sends
\* {type: "stop"}, while the remote session is silent
NextStop ==
    \/ \E frame \in InitFrames, haveKey \in BOOLEAN : Handshake(frame, haveKey)
    \/ \E ok \in BOOLEAN : Connect(ok)
    \/ \E frame \in {"binary", "stop", "disconnect"}, ok \in BOOLEAN :
            BrowserReader(frame, ok, MaxStopChunks, MaxStops)
    \/ \E ok \in BOOLEAN : GeminiSender(ok)
    \/ TaskGroup
    \/ Teardown

SpecStop == Init /\ [][NextStop]_vars

\* the turns of the remote session: responses with a tool call, with an
\* interruption and with a transcription and audio, over several turns
StreamResponses ==
    << [Silent EXCEPT !.calls = <<FC_unknown>>],
       [Silent EXCEPT !.interrupted = TRUE],
       [Silent EXCEPT !.output_transcription = TRUE, !.parts = <<TRUE>>] >>

NextTurns ==
    \/ \E frame \in InitFrames, haveKey \in BOOLEAN : Handshake(frame, haveKey)
    \/ \E ok \in BOOLEAN : Connect(ok)
    \/ \E frame \in {"disconnect", "close"} : BrowserReader(frame, TRUE, 0, 0)
    \/ GeminiReceiver(StreamResponses, LifecycleReads, LifecycleWrites,
                      MaxStreamResponses, MaxStreamTurns)
    \/ TaskGroup
    \/ Teardown

SpecTurns == Init /\ [][NextTurns]_vars

\* The resolver alone: _resolve_device on every catalog and target below.
ResolverCatalogs == << <<>>, Catalog, ExactCatalog, BigCatalog >>

\* the words a spoken target is made of
ResolverWords == <<T_Bedroom, T_Living_Room, W_light, W_bulb, Target_hall_fan>>

\* the targets of at most n of these words
RECURSIVE Phrases(_)
Phrases(n) ==
    IF n = 0 THEN {<<>>}
    ELSE Phrases(n - 1)
         \cup {IF p = <<>> THEN ResolverWords[i] ELSE p \o <<" ">> \o ResolverWords[i] :
                  p \in Phrases(n - 1), i \in 1..Len(ResolverWords)}

\* targets that are blank or punctuation, and targets that are the candidate
\* text of a device
ResolverTargets ==
    Phrases(MaxTargetWords)
    \cup {<<" ", " ">>, <<"?", "!", " ">>,
          _candidate_text(Catalog[1]), _candidate_text(ExactCatalog[1])}

InitResolver ==
    /\ phase = "Handshaking"
    /\ task = [t \in Tasks |-> "none"]
    /\ taskExc = [t \in Tasks |-> "none"]
    /\ tgPending = {}
    /\ exc = "none"
    /\ sessionOpen = FALSE
    /\ wsClosed = FALSE
    /\ audio_in_q = <<>>
    /\ nRecv = 0
    /\ evicted = {}
    /\ remoteIn = <<>>
    /\ wsOut = <<>>
    /\ rcv = RcvIdle
    /\ \E c \in 1..Len(ResolverCatalogs), target \in ResolverTargets :
          tool = [name |-> "_resolve_device",
                  args |-> [devices |-> ResolverCatalogs[c], target |-> target],
                  out |-> ResolverCall("start", <<>>, NoMatch, NoMatch)]

ResolverKeeps == <<phase, task, taskExc, tgPending, exc, sessionOpen, wsClosed,
                   audio_in_q, nRecv, evicted, remoteIn, wsOut, rcv>>

\* the target is normalized and every device is scored
ResolverScore ==
    /\ tool.name = "_resolve_device" /\ tool.out.pc = "start"
    /\ tool' = [tool EXCEPT !.out = ResolveScored(tool.args.devices, tool.args.target)]
    /\ UNCHANGED ResolverKeeps

\* the scored devices are ranked and the outcome is returned
ResolverDecide ==
    /\ tool.name = "_resolve_device" /\ tool.out.pc = "scored"
    /\ tool' = [tool EXCEPT !.out = ResolveDecided(tool.args.devices, tool.out.scored)]
    /\ UNCHANGED ResolverKeeps

\* the same call once more, on the same snapshot and target
ResolverRepeat ==
    /\ tool.name = "_resolve_device" /\ tool.out.pc = "done"
    /\ tool' = [tool EXCEPT !.out.pc = "repeated",
                            !.out.repeat = _resolve_device(tool.args.devices,
                                                           tool.args.target)]
    /\ UNCHANGED ResolverKeeps

NextResolver ==
    \/ ResolverScore
    \/ ResolverDecide
    \/ ResolverRepeat

SpecResolver == InitResolver /\ [][NextResolver]_vars

\* Spec with the scheduling of the event loop: a done-callback that is due runs,
\* the task group is left once all its tasks are done, and the except/finally
\* clauses of ws_endpoint run to their end. Nothing is assumed of the client or
\* of the remote session.
FairSpec == Init /\ [][Next]_vars /\ WF_vars(TaskGroup) /\ WF_vars(Teardown)

-----------------------------------------------------------------------------
(* Lifecycle of the Active phase                                           *)

\* a pipeline whose end the task group has processed
Finished(t) == task[t] \in {"returned", "raised"} /\ t \notin tgPending

\* C1: whenever one of the three pipelines has exited, by returning or by
\* raising, the other two are cancelled and the remote session is closed: no
\* reachable state has one pipeline finished while another one keeps running
\* and the remote session is open.
C1_NoPartialPipeline ==
    ~ \E t \in Tasks, u \in Tasks :
          /\ Finished(t)
          /\ task[u] = "running"
          /\ sessionOpen

\* C2: from Active, once a pipeline has raised (a client disconnect raises in
\* browser_reader), the relay eventually is Closed with the remote session
\* closed, the client connection closed and no pipeline running.
C2_RaiseLeadsToClosed ==
    (phase = "Active" /\ \E t \in Tasks : task[t] = "raised")
        ~> (/\ phase = "Closed"
            /\ ~sessionOpen
            /\ wsClosed
            /\ \A t \in Tasks : task[t] # "running")

\* C2's case: Closed after a client disconnect that cancelled both other pipelines
C2_Witness ==
    /\ phase = "Closed"
    /\ taskExc["browser_reader"] = "WebSocketDisconnect"
    /\ task["gemini_sender"] = "cancelled" /\ task["gemini_receiver"] = "cancelled"
    /\ ~sessionOpen /\ wsClosed

\* the Active phase ended by a client disconnect alone
NormalDisconnect ==
    /\ task["browser_reader"] = "raised"
    /\ taskExc["browser_reader"] = "WebSocketDisconnect"
    /\ \A t \in Tasks \ {"browser_reader"} : task[t] # "raised"

\* C3: when the Active phase has ended, the relay has sent (or tried to send)
\* exactly one error notification if the cause was a fatal pipeline error, and
\* none if the cause was a normal client disconnect.
C3_ErrorIffNotDisconnect ==
    (phase = "Closed" /\ \E t \in Tasks : task[t] # "none") =>
        CountType(wsOut, "error") = IF NormalDisconnect THEN 0 ELSE 1

-----------------------------------------------------------------------------
(* The audio path. Binary frames are numbered 1, 2, ... in the order the     *)
(* client sent them: chunk c is the c-th frame received.                    *)

NoDuplicates(q) == \A i, j \in 1..Len(q) : i # j => q[i] # q[j]

\* C4: a binary frame received while the queue holds QueueMaxsize chunks leaves
\* it with QueueMaxsize chunks, the new chunk last, the oldest chunk and no other
\* evicted, and no chunk twice; the queue never holds more than QueueMaxsize
\* chunks, and the frame is enqueued in the step that receives it, without the
\* inbound pipeline waiting for room.
C4_DropOldest ==
    [][ /\ Len(audio_in_q') <= QueueMaxsize
        /\ nRecv' = nRecv + 1 =>
              /\ audio_in_q' # <<>>
              /\ Last(audio_in_q') = nRecv'
              /\ NoDuplicates(audio_in_q')
              /\ task'["browser_reader"] = "running"
              /\ Len(audio_in_q) < QueueMaxsize =>
                    /\ audio_in_q' = Append(audio_in_q, nRecv')
                    /\ evicted' = evicted
              /\ Len(audio_in_q) = QueueMaxsize =>
                    /\ Len(audio_in_q') = QueueMaxsize
                    /\ audio_in_q' = Append(Tail(audio_in_q), nRecv')
                    /\ evicted' = evicted \cup {Head(audio_in_q)}
                    /\ Head(audio_in_q) \notin evicted
      ]_vars

\* C4's case: a frame has been enqueued into a full queue
C4_Witness ==
    /\ Len(audio_in_q) = QueueMaxsize
    /\ evicted = {1}
    /\ Head(audio_in_q) = 2
    /\ Last(audio_in_q) = QueueMaxsize + 1

\* the chunks sent to the remote session as audio input, in the order sent
RECURSIVE ForwardedAudio(_)
ForwardedAudio(log) ==
    IF log = <<>> THEN <<>>
    ELSE (IF Head(log).kind = "audio" THEN <<Head(log).chunk>> ELSE <<>>)
         \o ForwardedAudio(Tail(log))

\* the chunks received that were neither forwarded nor evicted and are not queued
Unaccounted ==
    (1..nRecv) \ (SeqToSet(ForwardedAudio(remoteIn)) \cup evicted \cup SeqToSet(audio_in_q))

Increasing(q) == \A i, j \in 1..Len(q) : i < j => q[i] < q[j]

-----------------------------------------------------------------------------
(* Tool batches and the notifications of gemini_receiver. Remote responses   *)
(* are numbered 1, 2, ... in the order the remote session produced them.     *)

\* the submissions of tool responses for the batch of response seq
Submissions(log, seq) ==
    {i \in 1..Len(log) : log[i].kind = "tool_response" /\ log[i].chunk = seq}

\* the tool_result notification of call j of response seq, with the result body
Announced(log, seq, j, name, body) ==
    \E i \in 1..Len(log) :
        log[i] = Note("tool_result", seq, j, name, body)

\* C6: for a response with a batch of k >= 1 tool calls, the tool responses are
\* submitted once, after all k calls were dispatched and returned, as k responses
\* in call order, each with the id and name of its call; and gemini_receiver goes
\* on to the next response only with the batch submitted.
C6_SubmitOncePerBatch ==
    [][ /\ (Len(remoteIn') = Len(remoteIn) + 1 /\ Last(remoteIn').kind = "tool_response") =>
              /\ Len(rcv.calls) >= 1
              /\ rcv.i = Len(rcv.calls) + 1
              /\ Last(remoteIn').chunk = rcv.nresp
              /\ Len(Last(remoteIn').responses) = Len(rcv.calls)
              /\ \A j \in 1..Len(rcv.calls) :
                    /\ Last(remoteIn').responses[j].id = rcv.calls[j].id
                    /\ Last(remoteIn').responses[j].name = rcv.calls[j].name
                    /\ Announced(wsOut, rcv.nresp, j, rcv.calls[j].name,
                                 Last(remoteIn').responses[j].response)
              /\ Submissions(remoteIn, rcv.nresp) = {}
        /\ (rcv.calls # <<>> /\ rcv'.calls = <<>> /\ task'["gemini_receiver"] = "running") =>
              Cardinality(Submissions(remoteIn', rcv.nresp)) = 1
      ]_vars

\* C6's case: a batch of two calls was submitted and the receiver went on
C6_Witness ==
    /\ rcv.pc = "next"
    /\ \E i \in 1..Len(remoteIn) :
          /\ remoteIn[i].kind = "tool_response"
          /\ Len(remoteIn[i].responses) = 2
          /\ remoteIn[i].responses[1].response.ok # remoteIn[i].responses[2].response.ok

\* the notifications of gemini_receiver's loop, in the order sent
RECURSIVE ReceiverNotes(_)
ReceiverNotes(log) ==
    IF log = <<>> THEN <<>>
    ELSE (IF Head(log).type \in {"tool_call", "tool_result", "interrupt", "transcript_in",
                                 "transcript_out", "audio", "turn_complete"}
          THEN <<Head(log)>> ELSE <<>>)
         \o ReceiverNotes(Tail(log))

\* the place of a notification among those of one response without tool calls
Rank(type) ==
    CASE type = "interrupt" -> 0
      [] type = "transcript_in" -> 1
      [] type = "transcript_out" -> 2
      [] type = "audio" -> 3
      [] OTHER -> 4

\* notification b may directly follow notification a
MayFollow(a, b) ==
    /\ a.type = "tool_call" =>
          b.type = "tool_result" /\ b.seq = a.seq /\ b.idx = a.idx /\ b.name = a.name
    /\ b.type = "tool_result" =>
          a.type = "tool_call" /\ b.seq = a.seq /\ b.idx = a.idx /\ b.name = a.name
    /\ a.type = "tool_result" =>
          \/ b.type = "tool_call" /\ b.seq = a.seq /\ b.idx = a.idx + 1
          \/ b.type = "turn_complete" /\ a.seq <= b.seq
          \/ a.seq < b.seq
    /\ a.type = "turn_complete" =>
          \/ a.seq < b.seq
          \/ b.type = "turn_complete" /\ b.seq = a.seq /\ a.idx < b.idx
    /\ a.type \in {"interrupt", "transcript_in", "transcript_out", "audio"} =>
          \/ a.seq < b.seq
          \/ b.type = "turn_complete" /\ a.seq <= b.seq
          \/ /\ b.seq = a.seq
             /\ \/ Rank(a.type) < Rank(b.type) /\ Rank(b.type) <= 3
                \/ a.type = "audio" /\ b.type = "audio" /\ a.name = "part"
                   /\ b.name = "part" /\ a.idx < b.idx
    /\ b.type = "tool_call" /\ a.type # "tool_result" => b.idx = 1 /\ a.seq < b.seq

\* the notifications e are in the order of the remote events
InEventOrder(e) ==
    /\ \A i \in 1..(Len(e) - 1) : MayFollow(e[i], e[i + 1])
    /\ e # <<>> => Head(e).type # "tool_result"
    /\ (rcv.pc \in {"next", "call", "submit"} /\ e # <<>>) => Last(e).type # "tool_call"

\* C7: the client sees the notifications of gemini_receiver in the order of the
\* remote events: each tool_call is followed directly by the tool_result of the
\* same call, before anything of a later call or response, and no transcript,
\* audio frame or turn_complete of a later event comes before one of an earlier.
C7_NotificationOrder == InEventOrder(ReceiverNotes(wsOut))

\* C7's case: two tool calls announced and answered, then output of a later response
C7_Witness ==
    /\ Len(ReceiverNotes(wsOut)) >= 6
    /\ ReceiverNotes(wsOut)[1].type = "tool_call"
    /\ ReceiverNotes(wsOut)[4].type = "tool_result"
    /\ ReceiverNotes(wsOut)[5].type = "transcript_out" /\ ReceiverNotes(wsOut)[5].seq = 2
    /\ ReceiverNotes(wsOut)[6].type = "audio"

-----------------------------------------------------------------------------
(* The handshake, the tool dispatch and the device write                    *)

\* the handshake has ended without a remote session being asked for
HandshakeRejected ==
    /\ phase \in {"Closed", "Failed"}
    /\ \A t \in Tasks : task[t] = "none"
    /\ exc # "ConnectError"

\* C8: when the first client message is missing or is no well-formed init
\* payload, the relay has sent one error notification, closed the connection
\* and gone to Closed, with no remote session opened and no pipeline started.
C8_MalformedInitRejected ==
    HandshakeRejected =>
        /\ phase = "Closed"
        /\ CountType(wsOut, "error") = 1
        /\ wsClosed
        /\ ~sessionOpen

\* the appliance API failed in the last request of a tool call: a transport
\* error, a non-success status, or a device list whose body is no JSON
ApiFailed(calls) ==
    /\ calls # <<>>
    /\ \/ Last(calls).resp # "200"
       \/ Last(calls).status = "none" /\ Last(calls).body.t = "invalid"

\* C9: no failure of a tool call reaches gemini_receiver. execute_tool returns a
\* structured result: ok = false, result = "error" with the Unknown tool message
\* for a name outside the registry, ok = false for every failure of the
\* appliance API and for every exception inside a tool; gemini_receiver stays
\* Active, has the result in the batch and goes on to the next call or to the
\* submission.
C9_DispatchNeverRaises ==
    /\ taskExc["gemini_receiver"] \in {"none", "SessionError"}
    /\ tool.name # "none" =>
          /\ ~tool.out.raised
          /\ tool.name \notin {"get_devices", "control_device"} =>
                /\ tool.out.value = [ok |-> FALSE, result |-> "error",
                                     message |-> <<"Unknown tool", tool.name>>]
                /\ tool.out.calls = <<>>
          /\ ApiFailed(tool.out.calls) =>
                "ok" \in DOMAIN tool.out.value /\ ~tool.out.value.ok
          /\ (tool.name = "control_device" /\ tool.out.calls = <<>>) =>
                /\ ~tool.out.value.ok
                /\ tool.out.value.result = "error"
          /\ phase = "Active"
          /\ task["gemini_receiver"] = "running"
          /\ rcv.pc \in {"call", "submit"}
          /\ Len(rcv.function_responses) = rcv.i - 1
          /\ Last(rcv.function_responses).response = ResultBrief(tool.out.value)

\* C9's case: an exception inside control_device (an action that is no text)
\* came back as an error result, and gemini_receiver goes on to the next call
\* of the batch
C9_Witness ==
    /\ tool.name = "control_device"
    /\ "action" \in DOMAIN tool.args
    /\ tool.args.action.t = "int"
    /\ tool.args.action.v = 5
    /\ tool.out.value = [ok |-> FALSE, result |-> "error", message |-> "AttributeError"]
    /\ rcv.pc = "call"
    /\ Len(rcv.calls) = 2

\* the device writes among the HTTP requests of a tool call, in order
RECURSIVE Writes(_)
Writes(calls) ==
    IF calls = <<>> THEN <<>>
    ELSE (IF Head(calls).status # "none" THEN <<Head(calls)>> ELSE <<>>)
         \o Writes(Tail(calls))

\* C10: control_device writes to /application/{type}/{id} first; a 404 there
\* makes exactly one request to /{type}/{id} with the same status parameter, and
\* no other outcome of the first write makes one; the result is a success exactly
\* if the last write succeeded and an error result otherwise; at most two writes
\* are made.
C10_WriteRetry ==
    tool.name = "control_device" =>
        /\ Len(Writes(tool.out.calls)) <= 2
        /\ Len(Writes(tool.out.calls)) >= 1 =>
              /\ tool.out.calls = <<Head(tool.out.calls)>> \o Writes(tool.out.calls)
              /\ Len(Writes(tool.out.calls)[1].path) = 3
              /\ Writes(tool.out.calls)[1].path[1] = "application"
              /\ Writes(tool.out.calls)[1].path[2] = tool.out.value.device.type
              /\ Writes(tool.out.calls)[1].path[3] = tool.out.value.device.id
              /\ Len(Writes(tool.out.calls)) = 2 <=> Writes(tool.out.calls)[1].resp = "404"
              /\ tool.out.value.ok <=> Last(tool.out.calls).resp = "200"
              /\ ~tool.out.value.ok => tool.out.value.result = "error"
        /\ Len(Writes(tool.out.calls)) = 2 =>
              /\ Writes(tool.out.calls)[2].path = <<tool.out.value.device.type,
                                                    tool.out.value.device.id>>
              /\ Writes(tool.out.calls)[2].status = Writes(tool.out.calls)[1].status
        /\ Len(Writes(tool.out.calls)) = 0 => ~tool.out.value.ok

\* C10's case: the primary path and then the legacy path answered 404
C10_Witness ==
    /\ tool.name = "control_device"
    /\ Len(Writes(tool.out.calls)) = 2
    /\ Writes(tool.out.calls)[1].resp = "404"
    /\ Writes(tool.out.calls)[2].resp = "404"
    /\ tool.out.value.result = "error"

\* the text an argument of control_device has once execute_tool has put the
\* default in the place of a missing or falsy one
ArgText(args, key, default) == Or(Get(args, key), PyStr(default))

\* the snapshot get_devices makes of the answer to the read request call
SnapshotOf(call) == get_devices([read |-> [resp |-> call.resp, json |-> call.body]]).value

\* the snapshot has a truthy ok
SnapshotOk(snap) == "ok" \in DOMAIN snap /\ snap.ok

\* snapshot.get("devices") or []
SnapshotDevices(snap) == Or(Get(snap, "devices"), PyArray(<<>>))

\* the first n elements of a sequence, or all of it when it is shorter
Prefix(seq, n) == SubSeq(seq, 1, IF Len(seq) < n THEN Len(seq) ELSE n)

\* the fields of a device that a needs_clarification result lists
OptionOf(d) == [type |-> d.type, id |-> d.id, name |-> d.name, room |-> d.room,
                status |-> d.status]

\* C11: a control_device call whose action and target are texts, as its
\* signature says, makes exactly one read of the devices, first, and every later
\* request is a write. It writes exactly when the read gave a snapshot with
\* ok and _resolve_device matched one device. A failed read gives
\* {ok: false, result: "error"}, several close matches give
\* {ok: false, result: "needs_clarification"} with the options, no match gives
\* {ok: false, result: "not_found"} with the first 12 devices of the catalog at
\* most, and none of the three makes a write.
C11_WriteOnlyWhenMatched ==
    (/\ tool.name = "control_device"
     /\ ArgText(tool.args, "action", W_toggle).t = "str"
     /\ ArgText(tool.args, "target", <<>>).t = "str"
     /\ SnapshotDevices(SnapshotOf(Head(tool.out.calls))).t = "array") =>
        LET calls == tool.out.calls
            value == tool.out.value
            snap == SnapshotOf(calls[1])
            devices == SnapshotDevices(snap).v
            res == Resolve(devices, ArgText(tool.args, "target", <<>>).v)
        IN  /\ Len(calls) >= 1
            /\ calls[1].path = <<"api", "devices">>
            /\ calls[1].status = "none"
            /\ Tail(calls) = Writes(calls)
            /\ Writes(calls) # <<>> <=>
                  SnapshotOk(snap) /\ res.options = <<>> /\ res.best # <<>>
            /\ ApiFailed(<<calls[1]>>) =>
                  value = [ok |-> FALSE, result |-> "error",
                           message |-> "get_devices failed"]
            /\ ~SnapshotOk(snap) => ~value.ok /\ value.result = "error"
            /\ (SnapshotOk(snap) /\ res.options # <<>>) =>
                  value = [ok |-> FALSE, result |-> "needs_clarification",
                           options |-> [k \in 1..Len(res.options) |->
                                           OptionOf(res.options[k])]]
            /\ (SnapshotOk(snap) /\ res.options = <<>> /\ res.best = <<>>) =>
                  value = [ok |-> FALSE, result |-> "not_found",
                           known_devices |-> Prefix(devices, KnownDevicesMax)]
            /\ value.result \in {"needs_clarification", "not_found"} =>
                  Writes(calls) = <<>>

\* C11's case: the target names both bulbs, the call asks which one is meant
\* and has made the read and no write
C11_Witness ==
    /\ tool.name = "control_device"
    /\ tool.out.value.result = "needs_clarification"
    /\ Len(tool.out.value.options) = 2
    /\ Len(tool.out.calls) = 1

\* C11's case: no device of a catalog of more than 12 devices matches, and the
\* result lists the first 12
C11_WitnessNotFound ==
    /\ tool.name = "control_device"
    /\ tool.out.value.result = "not_found"
    /\ Len(tool.out.value.known_devices) = KnownDevicesMax
    /\ Len(tool.out.calls) = 1

\* the read request answered 200 with a list of devices, bare or in an envelope
\* with a devices field
GoodRead(call) ==
    /\ call.resp = "200"
    /\ \/ call.body.t = "array"
       \/ /\ call.body.t = "object"
          /\ "devices" \in DOMAIN call.body.v
          /\ call.body.v.devices.t = "array"

\* the devices of the answer to a good read
ReadDevices(call) ==
    IF call.body.t = "array" THEN call.body ELSE call.body.v.devices

\* C12: after a read answered with a bare list of devices or with an envelope
\* that has a devices field, the result of get_devices has ok = true, a ts and
\* the devices of the answer, and a control_device call with a text action and
\* target goes on to resolve the target: its result is not the error of a failed
\* read.
C12_BothShapesNormalized ==
    (tool.name \in {"get_devices", "control_device"}
     /\ tool.out.calls # <<>> /\ GoodRead(Head(tool.out.calls))) =>
        /\ tool.name = "get_devices" =>
              /\ DOMAIN tool.out.value = {"ok", "ts", "devices"}
              /\ tool.out.value.ok
              /\ tool.out.value.devices = ReadDevices(Head(tool.out.calls))
        /\ (tool.name = "control_device"
            /\ ArgText(tool.args, "target", <<>>).t = "str") =>
              \/ tool.out.value.result \in {"success", "needs_clarification", "not_found"}
              \/ Writes(tool.out.calls) # <<>>

\* the device of a catalog that has the identity (type, id)
DeviceOf(devices, type, id) ==
    CHOOSE d \in SeqToSet(devices) : d.type = type /\ d.id = id

\* C13: when control_device writes, the status it asks for is the opposite of
\* the device's status in the snapshot for the action "toggle" and for an action
\* that is missing or outside {on, off, toggle}, true for "on" and false for
\* "off" (the action is compared stripped and in lower case); every write of
\* the call carries that status, and a success result reports the snapshot's
\* status as status_before and the status asked for as status_after.
C13_DesiredStatus ==
    (tool.name = "control_device" /\ Writes(tool.out.calls) # <<>>) =>
        LET a == LowerText(Strip(ArgText(tool.args, "action", W_toggle).v))
            devices == SnapshotDevices(SnapshotOf(Head(tool.out.calls))).v
            device == tool.out.value.device
            b == DeviceOf(devices, device.type, device.id).status
            status_after == IF a = W_on THEN TRUE
                            ELSE IF a = W_off THEN FALSE
                            ELSE ~b
        IN  /\ \A k \in 1..Len(Writes(tool.out.calls)) :
                  Writes(tool.out.calls)[k].status =
                      (IF status_after THEN "true" ELSE "false")
            /\ tool.out.value.ok =>
                  /\ tool.out.value.result = "success"
                  /\ device.status_before = b
                  /\ device.status_after = status_after

\* C13's case: no action was given, the device is off; the call toggles it
\* with one write of status=true and reports false before and true after
C13_Witness ==
    /\ tool.name = "control_device"
    /\ "action" \notin DOMAIN tool.args
    /\ tool.out.value.ok
    /\ tool.out.value.device.status_before = FALSE
    /\ tool.out.value.device.status_after = TRUE
    /\ Len(Writes(tool.out.calls)) = 1
    /\ Writes(tool.out.calls)[1].status = "true"

\* C13's case: the device is on and the action is "toggle"; the write asks
\* for status=false
C13_WitnessToggleOff ==
    /\ tool.name = "control_device"
    /\ "action" \in DOMAIN tool.args
    /\ tool.args.action.t = "str"
    /\ tool.args.action.v = W_toggle
    /\ tool.out.value.ok
    /\ tool.out.value.device.status_before = TRUE
    /\ tool.out.value.device.status_after = FALSE
    /\ Writes(tool.out.calls)[1].status = "false"

-----------------------------------------------------------------------------
(* The resolver                                                            *)

\* the call of _resolve_device has returned
Resolved == tool.name = "_resolve_device" /\ tool.out.pc \in {"done", "repeated"}

\* C14: if the candidate text of exactly one device of the catalog is the
\* normalized target, _resolve_device returns that device as the match and no
\* options, whatever the other devices of the catalog are.
C14_ExactMatchWins ==
    Resolved =>
        \A i \in 1..Len(tool.args.devices) :
            (/\ _candidate_text(tool.args.devices[i]) = _norm(tool.args.target)
             /\ \A j \in 1..Len(tool.args.devices) :
                   j # i => _candidate_text(tool.args.devices[j]) # _norm(tool.args.target))
            => tool.out.result = [best |-> <<tool.args.devices[i]>>, options |-> <<>>]

\* C15: if two devices of the catalog have the same name and type and
\* different rooms and the target is that name without a room, _resolve_device
\* returns no match and options that contain both devices.
C15_RoomOnlyDifference ==
    Resolved =>
        \A i, j \in 1..Len(tool.args.devices) :
            (/\ i < j
             /\ tool.args.devices[i].name = tool.args.devices[j].name
             /\ tool.args.devices[i].type = tool.args.devices[j].type
             /\ tool.args.devices[i].room # tool.args.devices[j].room
             /\ _norm(tool.args.target) = _norm(tool.args.devices[i].name))
            => /\ tool.out.result.best = <<>>
               /\ {tool.args.devices[i], tool.args.devices[j]}
                     \subseteq SeqToSet(tool.out.result.options)

\* C16: _resolve_device returns no match and no options for every catalog
\* when the target is empty or normalizes to the empty text, and for every
\* target when the catalog is empty.
C16_EmptyIsNotFound ==
    (Resolved /\ (_norm(tool.args.target) = <<>> \/ tool.args.devices = <<>>)) =>
        tool.out.result = NoMatch

\* C16's case: a target of punctuation on a catalog that has devices
C16_Witness ==
    /\ Resolved
    /\ tool.args.target = <<"?", "!", " ">>
    /\ Len(tool.args.devices) = 3
    /\ tool.out.result = NoMatch

\* C16's case: a target that names a device, on the empty catalog
C16_WitnessNoDevices ==
    /\ Resolved
    /\ tool.args.target = _candidate_text(Catalog[1])
    /\ tool.args.devices = <<>>
    /\ tool.out.result = NoMatch

\* the number of devices ranked before device i: those of a greater score, and
\* those of the same score that come earlier in the catalog
RankedBefore(scores, i) ==
    Cardinality({j \in 1..Len(scores) :
                    \/ FracLess(scores[i], scores[j])
                    \/ j < i /\ ~FracLess(scores[j], scores[i])})

\* the greatest of the scores
TopScore(scores) ==
    scores[CHOOSE i \in 1..Len(scores) : RankedBefore(scores, i) = 0]

\* the devices the decision rule makes options: among the first 5 of the
\* ranking, within 0.08 of the top score and of a score of 0.60 at least
OptionSet(scores) ==
    {i \in 1..Len(scores) :
        /\ RankedBefore(scores, i) < AmbiguousTop
        /\ FracLeq(FracSub(TopScore(scores), scores[i]), AmbiguousBand)
        /\ FracLeq(AmbiguousFloor, scores[i])}

\* C19: on the scores of the devices (the similarity ratio plus 0.15 when every
\* token of the target is a token of the candidate), _resolve_device returns
\* no match and no options exactly when the top score is below 0.55; otherwise
\* it returns the option set in ranked order and no match exactly when that set
\* has two or more devices, and the top-ranked device and no options when it
\* has fewer, also for a top score from 0.55 up to 0.60. The same call made
\* again returns the same value.
C19_DecisionRule ==
    /\ (Resolved /\ tool.out.scored # <<>>) =>
          LET devices == tool.args.devices
              scores == tool.out.scored
              result == tool.out.result
              opts == OptionSet(scores)
          IN  /\ Len(scores) = Len(devices)
              /\ result = NoMatch <=> FracLess(TopScore(scores), NotFoundBelow)
              /\ (~FracLess(TopScore(scores), NotFoundBelow) /\ Cardinality(opts) >= 2) =>
                    /\ result.best = <<>>
                    /\ Len(result.options) = Cardinality(opts)
                    /\ \A k \in 1..Len(result.options) :
                          \E i \in opts :
                              /\ result.options[k] = devices[i]
                              /\ Cardinality({j \in opts :
                                     RankedBefore(scores, j) < RankedBefore(scores, i)})
                                 = k - 1
              /\ (~FracLess(TopScore(scores), NotFoundBelow) /\ Cardinality(opts) < 2) =>
                    /\ result.options = <<>>
                    /\ \E i \in 1..Len(scores) :
                          /\ RankedBefore(scores, i) = 0
                          /\ result.best = <<devices[i]>>
    /\ (tool.name = "_resolve_device" /\ tool.out.pc = "repeated") =>
          tool.out.repeat = tool.out.result

\* C19's case: the top score is 0.55 or more and below 0.60, the next device is
\* within 0.08 of it, and the top device is returned as the match
C19_Witness ==
    /\ Resolved
    /\ Len(tool.out.scored) >= 2
    /\ ~FracLess(TopScore(tool.out.scored), NotFoundBelow)
    /\ FracLess(TopScore(tool.out.scored), AmbiguousFloor)
    /\ \E i \in 1..Len(tool.out.scored) :
          /\ RankedBefore(tool.out.scored, i) = 1
          /\ FracLeq(FracSub(TopScore(tool.out.scored), tool.out.scored[i]), AmbiguousBand)
    /\ tool.out.result.best # <<>>
    /\ tool.out.result.options = <<>>

\* C19's case: more than 5 devices are within 0.08 of the top score, and the
\* options are the first 5 of the ranking
C19_WitnessTopFive ==
    /\ Resolved
    /\ Len(tool.out.result.options) = AmbiguousTop
    /\ Cardinality({i \in 1..Len(tool.out.scored) :
            /\ FracLeq(FracSub(TopScore(tool.out.scored), tool.out.scored[i]), AmbiguousBand)
            /\ FracLeq(AmbiguousFloor, tool.out.scored[i])}) > AmbiguousTop
    /\ tool.out.repeat = tool.out.result

-----------------------------------------------------------------------------
(* Audio and turns of the remote session                                    *)

\* the audio payloads of a response: the direct data, or else the parts of the
\* model turn that have inline audio
AudioPayloads(resp) ==
    IF resp.data THEN 1 ELSE Cardinality({k \in 1..Len(resp.parts) : resp.parts[k]})

\* the binary frames sent to the client for the response number seq
AudioFrames(out, seq) ==
    Cardinality({k \in 1..Len(out) : out[k].type = "audio" /\ out[k].seq = seq})

\* C17: once gemini_receiver is done with a response, it has sent the client one
\* binary frame for each audio payload of the response, no more and no fewer,
\* also when the response has tool calls, an interruption flag or a
\* transcription.
C17_AudioForwardedOnce ==
    (task["gemini_receiver"] = "running" /\ rcv.pc = "next" /\ rcv.nresp >= 1) =>
        AudioFrames(wsOut, rcv.nresp) = AudioPayloads(rcv.resp)

\* the frames of a log that are of the given type, in order
RECURSIVE OfType(_, _)
OfType(log, type) ==
    IF log = <<>> THEN <<>>
    ELSE (IF Head(log).type = type THEN <<Head(log)>> ELSE <<>>) \o OfType(Tail(log), type)

\* every turn_complete of the log e comes after every frame of the responses
\* that arrived before it and before every frame of the responses that arrived
\* after it
TurnsSeparateResponses(e) ==
    \A p \in 1..Len(e) :
        e[p].type = "turn_complete" =>
            /\ \A q \in 1..(p - 1) : e[q].seq <= e[p].seq
            /\ \A q \in (p + 1)..Len(e) :
                  \/ e[q].seq > e[p].seq
                  \/ e[q].type = "turn_complete" /\ e[q].seq = e[p].seq

\* C18: gemini_receiver has sent one turn_complete for each turn that ended,
\* in the order of the turns, each after every notification and audio frame of
\* the responses of its turn and before any of a later response; it never
\* returns, so it goes on with the next turn. A response with the interruption
\* flag gives one interrupt notification, and after it gemini_receiver is
\* waiting for the next response of the same turn in the Active phase.
C18_OneTurnCompletePerTurn ==
    /\ task["gemini_receiver"] # "returned"
    /\ task["gemini_receiver"] = "running" =>
          /\ Len(OfType(wsOut, "turn_complete")) = rcv.turn
          /\ \A k \in 1..rcv.turn : OfType(wsOut, "turn_complete")[k].idx = k
    /\ TurnsSeparateResponses(ReceiverNotes(wsOut))
    /\ (task["gemini_receiver"] = "running" /\ rcv.pc = "next" /\ rcv.nresp >= 1
        /\ rcv.resp.interrupted /\ rcv.resp.calls = <<>>) =>
          /\ phase = "Active"
          /\ Cardinality({k \in 1..Len(wsOut) :
                  wsOut[k].type = "interrupt" /\ wsOut[k].seq = rcv.nresp}) = 1
          /\ \A k \in 1..Len(wsOut) :
                (wsOut[k].type = "turn_complete" /\ wsOut[k].seq >= rcv.nresp) =>
                    \E j \in 1..(k - 1) :
                        wsOut[j].type = "interrupt" /\ wsOut[j].seq = rcv.nresp

\* C18's case: a turn with an interruption and a later response with audio was
\* completed, and a response of the second turn was forwarded after it
C18_Witness ==
    /\ task["gemini_receiver"] = "running"
    /\ \E i, j, k, l \in 1..Len(wsOut) :
          /\ i < j /\ j < k /\ k < l
          /\ wsOut[i].type = "interrupt"
          /\ wsOut[j].type = "audio" /\ wsOut[j].seq > wsOut[i].seq
          /\ wsOut[k].type = "turn_complete" /\ wsOut[k].idx = 1
          /\ wsOut[l].type = "transcript_out" /\ wsOut[l].seq > wsOut[j].seq

-----------------------------------------------------------------------------
(* The end of the client's audio                                            *)

\* C20: the end-of-stream signal is handed to the remote session only when
\* every chunk received before the stop has been forwarded to the remote session
\* or evicted, that is when audio_in_q is empty; so no chunk received before the
\* stop reaches the remote session after the signal, however browser_reader and
\* gemini_sender interleave.
C20_EndOfStreamAfterAudio ==
    [][CountKind(remoteIn', "audio_stream_end") > CountKind(remoteIn, "audio_stream_end")
          => audio_in_q = <<>>]_vars

-----------------------------------------------------------------------------
(* The control channel                                                      *)

\* C21: no text frame ends browser_reader with an exception: it raises only on
\* a disconnect of the client or on a failed send of typed text, so a frame that
\* is no recognised control message leaves the Active phase, the three
\* pipelines, audio_in_q and the remote session as they were; and a step that
\* sends a pong sends exactly one and leaves the pipelines, audio_in_q and the
\* remote session as they were.
C21_ControlFramesIgnored ==
    [][/\ (task["browser_reader"] = "running" /\ task'["browser_reader"] = "raised") =>
            taskExc'["browser_reader"] \in {"WebSocketDisconnect", "SessionError"}
       /\ CountType(wsOut', "pong") # CountType(wsOut, "pong") =>
            /\ CountType(wsOut', "pong") = CountType(wsOut, "pong") + 1
            /\ Len(wsOut') = Len(wsOut) + 1
            /\ UNCHANGED <<phase, task, audio_in_q, remoteIn>>]_vars

====
